---- MODULE Spec2Model ----
(***************************************************************************)
(* fritz_guess: MostFrequentLineByLine (crates/fritz_guess/src/lib.rs) and *)
(* the per-file tasks of the fritz-guess binary (src/bin/fritz-guess.rs).  *)
(* Characters are Unicode code points, bytes are 0..255, a String is a     *)
(* sequence of code points.                                                *)
(***************************************************************************)
EXTENDS Integers, Sequences, FiniteSets, TLC

VARIABLES source, pc, content, newResult,
          called, seps, lineWinner, tally, result,
          refCalled, refContent, refSeps, refResult,
          files, task, counter, printed

libVars == <<source, pc, content, newResult>>
callVars == <<called, seps, lineWinner, tally, result>>
refVars == <<refCalled, refContent, refSeps, refResult>>
binVars == <<files, task, counter, printed>>
vars == <<source, pc, content, newResult,
          called, seps, lineWinner, tally, result,
          refCalled, refContent, refSeps, refResult,
          files, task, counter, printed>>

---------------------------------------------------------------------------
(* Characters and bytes of the inputs. *)

LF == 10
CR == 13
Comma == 44
Semicolon == 59
LetterA == 97
LeadC3 == 195
ContA9 == 169

(* Bounds on the enumerated inputs. *)
MaxLen == 5
MaxBytes == 3
MaxPairLen == 3
MaxFiles == 3

SeqsUpTo(S, n) == UNION {[1..k -> S] : k \in 0..n}

RECURSIVE Perms(_)
Perms(S) ==
    IF S = {} THEN {<<>>}
    ELSE UNION {{<<x>> \o p : p \in Perms(S \ {x})} : x \in S}

Range(s) == {s[i] : i \in DOMAIN s}

(* Result<T, Error>: Ok(v), Err(Error::Io), Err(Error::NoDelimiterFound). *)
Ok(v) == [ok |-> TRUE, val |-> v]
Err(e) == [ok |-> FALSE, err |-> e]
Io == "Io"
NoDelimiterFound == "NoDelimiterFound"

---------------------------------------------------------------------------
(* try_new: read_to_string, which decodes the bytes read as UTF-8.  The    *)
(* decoder covers the one- and two-byte forms; every other lead byte is    *)
(* rejected, and the enumerated bytes hold no lead byte of a longer form.  *)

IsCont(b) == b >= 128 /\ b <= 191

RECURSIVE Utf8Decode(_)
Utf8Decode(bytes) ==
    IF bytes = <<>> THEN Ok(<<>>)
    ELSE LET b == Head(bytes) IN
         IF b < 128
         THEN LET rest == Utf8Decode(Tail(bytes)) IN
              IF rest.ok THEN Ok(<<b>> \o rest.val) ELSE rest
         ELSE IF b >= 194 /\ b <= 223 /\ Len(bytes) >= 2 /\ IsCont(bytes[2])
         THEN LET rest == Utf8Decode(Tail(Tail(bytes))) IN
              IF rest.ok
              THEN Ok(<<(b - 192) * 64 + (bytes[2] - 128)>> \o rest.val)
              ELSE rest
         ELSE Err(Io)

ReadToString(src) ==
    IF src.fault THEN Err(Io) ELSE Utf8Decode(src.bytes)

TryNewLossy(src) ==
    IF src.fault THEN Err(Io)
    ELSE Ok([content |-> SelectSeq(src.bytes, LAMBDA b : b < 128)])

TryNewResult(src) ==
    LET buffer == ReadToString(src) IN
    IF buffer.ok THEN Ok([content |-> buffer.val]) ELSE Err(Io)

---------------------------------------------------------------------------
(* content.lines(): split_inclusive('\n'), then each piece loses a         *)
(* trailing "\n" and, only when it had one, a trailing "\r".               *)

FirstLF(s) ==
    IF \E i \in DOMAIN s : s[i] = LF
    THEN CHOOSE i \in DOMAIN s : s[i] = LF /\ \A j \in 1..(i - 1) : s[j] # LF
    ELSE 0

RECURSIVE SplitInclusive(_)
SplitInclusive(s) ==
    IF s = <<>> THEN <<>>
    ELSE LET k == FirstLF(s) IN
         IF k = 0 THEN <<s>>
         ELSE <<SubSeq(s, 1, k)>> \o SplitInclusive(SubSeq(s, k + 1, Len(s)))

StripSuffix(s, c) ==
    IF s # <<>> /\ s[Len(s)] = c THEN <<SubSeq(s, 1, Len(s) - 1)>> ELSE <<>>

LinesMap(piece) ==
    LET noLF == StripSuffix(piece, LF) IN
    IF noLF = <<>> THEN piece
    ELSE LET noCR == StripSuffix(noLF[1], CR) IN
         IF noCR = <<>> THEN noLF[1] ELSE noCR[1]

Lines(s) ==
    LET p == SplitInclusive(s) IN [i \in DOMAIN p |-> LinesMap(p[i])]

---------------------------------------------------------------------------
(* guess: the per-line tally (HashMap), the line's winner (max_by over the *)
(* map's iteration order), the global tally (BTreeMap) and the result.     *)

IsOneOfFirst(c, separators) == separators # <<>> /\ separators[1] = c

IsOneOfAny(c, separators) == TRUE

IsOneOf(c, separators) == \E i \in DOMAIN separators : separators[i] = c

Bump(acc, c) ==
    IF c \in DOMAIN acc THEN [acc EXCEPT ![c] = @ + 1]
    ELSE [k \in DOMAIN acc \cup {c} |-> IF k = c THEN 0 + 1 ELSE acc[k]]

RECURSIVE FoldCount(_, _)
FoldCount(chars, acc) ==
    IF chars = <<>> THEN acc
    ELSE FoldCount(Tail(chars), Bump(acc, Head(chars)))

EmptyMap == [k \in {} |-> 0]

LineTally(line, separators) ==
    FoldCount(SelectSeq(line, LAMBDA c : IsOneOf(c, separators)), EmptyMap)

(* Iterator::max_by: of several equally maximum elements the last one. *)
RECURSIVE MaxByFrom(_, _, _)
MaxByFrom(order, t, best) ==
    IF order = <<>> THEN <<best>>
    ELSE MaxByFrom(Tail(order), t,
                   IF t[best] > t[Head(order)] THEN best ELSE Head(order))

RECURSIVE MaxByFromFirst(_, _, _)
MaxByFromFirst(order, t, best) ==
    IF order = <<>> THEN <<best>>
    ELSE MaxByFromFirst(Tail(order), t,
                        IF t[best] >= t[Head(order)] THEN best ELSE Head(order))

MaxByFirst(order, t) ==
    IF order = <<>> THEN <<>> ELSE MaxByFromFirst(Tail(order), t, Head(order))

MaxBy(order, t) ==
    IF order = <<>> THEN <<>> ELSE MaxByFrom(Tail(order), t, Head(order))

(* A HashMap enumerates its keys in an order fixed by its own RandomState: *)
(* any permutation of the keys, chosen anew for every map.                 *)
HashOrders(t) == Perms(DOMAIN t)

RECURSIVE OrdersFor(_, _)
OrdersFor(lines, separators) ==
    IF lines = <<>> THEN {<<>>}
    ELSE {<<o>> \o rest : o \in HashOrders(LineTally(Head(lines), separators)),
                          rest \in OrdersFor(Tail(lines), separators)}

LineWinnerFirstSeen(line, separators, order) ==
    LET hits == SelectSeq(line, LAMBDA c : IsOneOf(c, separators)) IN
    IF hits = <<>> THEN <<>> ELSE <<hits[1]>>

LineWinner(line, separators, order) ==
    MaxBy(order, LineTally(line, separators))

LineWinners(lines, separators, orders) ==
    [i \in DOMAIN lines |-> LineWinner(lines[i], separators, orders[i])]

(* flat_map over the Option of every line. *)
RECURSIVE Flatten(_)
Flatten(ws) ==
    IF ws = <<>> THEN <<>> ELSE Head(ws) \o Flatten(Tail(ws))

GlobalTally(ws) == FoldCount(Flatten(ws), EmptyMap)

(* BTreeMap::iter: ascending keys. *)
RECURSIVE Ascending(_)
Ascending(S) ==
    IF S = {} THEN <<>>
    ELSE LET m == CHOOSE x \in S : \A y \in S : x <= y IN
         <<m>> \o Ascending(S \ {m})

GuessResult(t) ==
    LET m == MaxBy(Ascending(DOMAIN t), t) IN
    IF m = <<>> THEN Err(NoDelimiterFound) ELSE Ok(m[1])

GuessWith(text, separators, orders) ==
    GuessResult(GlobalTally(LineWinners(Lines(text), separators, orders)))

---------------------------------------------------------------------------
(* Inputs. *)

TextChars == {LF, CR, Comma, Semicolon, LetterA}
RawBytes == {Comma, LetterA, LeadC3, ContA9}
SepChars == {CR, Comma, Semicolon}
PairSepChars == {Comma, Semicolon}

Sources ==
    {[bytes |-> b, fault |-> FALSE] : b \in SeqsUpTo(TextChars, MaxLen)}
    \cup {[bytes |-> b, fault |-> f] : b \in SeqsUpTo(RawBytes, MaxBytes),
                                      f \in BOOLEAN}

PairSources ==
    {[bytes |-> b, fault |-> FALSE] : b \in SeqsUpTo(TextChars, MaxPairLen)}

Candidates == UNION {Perms(S) : S \in SUBSET SepChars}
PairCandidates == UNION {Perms(S) : S \in SUBSET PairSepChars} \cup {<<CR>>}

NoCall == Err("none")

InitCall ==
    /\ called = FALSE
    /\ seps = <<>>
    /\ lineWinner = <<>>
    /\ tally = EmptyMap
    /\ result = NoCall

InitRef ==
    /\ refCalled = FALSE
    /\ refContent = <<>>
    /\ refSeps = <<>>
    /\ refResult = NoCall

InitBinIdle ==
    /\ files = <<>>
    /\ task = <<>>
    /\ counter = 0
    /\ printed = <<>>

InitLib(srcs) ==
    /\ source \in srcs
    /\ pc = "new"
    /\ content = <<>>
    /\ newResult = NoCall

Init == InitLib(Sources) /\ InitCall /\ InitRef /\ InitBinIdle

(* MostFrequentLineByLine::try_new(&mut source) *)
TryNew ==
    /\ pc = "new"
    /\ LET r == TryNewResult(source) IN
       /\ newResult' = r
       /\ pc' = IF r.ok THEN "ready" ELSE "failed"
       /\ content' = IF r.ok THEN r.val.content ELSE content
    /\ UNCHANGED <<source, callVars, refVars, binVars>>

(* guesser.guess(separators.iter()) *)
GuessOf(cands) ==
    /\ pc = "ready"
    /\ \E s \in cands : \E o \in OrdersFor(Lines(content), s) :
        LET ws == LineWinners(Lines(content), s, o)
            t == GlobalTally(ws)
        IN  /\ called' = TRUE
            /\ seps' = s
            /\ lineWinner' = ws
            /\ tally' = t
            /\ result' = GuessResult(t)
    /\ UNCHANGED <<libVars, refVars, binVars>>

Guess == ~called /\ GuessOf(Candidates)

(* The caller is done with the Result of its last call. *)
Drop ==
    /\ called
    /\ called' = FALSE
    /\ seps' = <<>>
    /\ lineWinner' = <<>>
    /\ tally' = EmptyMap
    /\ result' = NoCall
    /\ UNCHANGED <<libVars, refVars, binVars>>

Next == TryNew \/ Guess \/ Drop

Spec == Init /\ [][Next]_vars

---------------------------------------------------------------------------
(* Two calls in a row on one guesser, and a guesser built anew from the    *)
(* same source (optionally followed by one newline), as the tests build    *)
(* one per case.                                                           *)

InitPair == InitLib(PairSources) /\ InitCall /\ InitRef /\ InitBinIdle

GuessAgain == GuessOf(PairCandidates)

FreshGuess ==
    /\ pc = "ready"
    /\ \E suffix \in {<<>>, <<LF>>} : \E s \in PairCandidates :
        LET r == TryNewResult([bytes |-> source.bytes \o suffix,
                               fault |-> FALSE])
        IN  /\ r.ok
            /\ \E o \in OrdersFor(Lines(r.val.content), s) :
                /\ refCalled' = TRUE
                /\ refContent' = r.val.content
                /\ refSeps' = s
                /\ refResult' = GuessWith(r.val.content, s, o)
    /\ UNCHANGED <<libVars, callVars, binVars>>

NextPair == TryNew \/ GuessAgain \/ FreshGuess

SpecPair == InitPair /\ [][NextPair]_vars

---------------------------------------------------------------------------
(* fritz-guess main: one task per path on the rayon pool, sharing the      *)
(* AtomicUsize counter and standard output.                                *)

BinSep == <<Comma, Semicolon>>

BinFiles ==
    {[exists |-> FALSE, bytes |-> <<>>]}
    \cup {[exists |-> TRUE, bytes |-> b] :
            b \in {<<LetterA>>, <<Comma>>, <<LeadC3>>}}

NewTask == [pc |-> "start", guess |-> 0, prev |-> 0, out |-> "none"]

InitBin ==
    /\ source = [bytes |-> <<>>, fault |-> FALSE]
    /\ pc = "new"
    /\ content = <<>>
    /\ newResult = NoCall
    /\ InitCall
    /\ InitRef
    /\ files \in SeqsUpTo(BinFiles, MaxFiles)
    /\ task = [i \in DOMAIN files |-> NewTask]
    /\ counter = 0
    /\ printed = <<>>

(* File::open(..).expect, try_new(..).expect, guesser.guess(sep.iter()); *)
(* the else branch builds Guess::Fail and touches nothing shared.        *)
TaskAfterGuess(i, o) ==
    IF ~files[i].exists THEN [task[i] EXCEPT !.pc = "panicked"]
    ELSE LET r == TryNewResult([bytes |-> files[i].bytes, fault |-> FALSE]) IN
         IF ~r.ok THEN [task[i] EXCEPT !.pc = "panicked"]
         ELSE LET g == GuessWith(r.val.content, BinSep, o[1]) IN
              IF g.ok THEN [task[i] EXCEPT !.pc = "guessed", !.guess = g.val]
              ELSE [task[i] EXCEPT !.pc = "done", !.out = "Fail"]

RunOrders(i) ==
    LET r == TryNewResult([bytes |-> files[i].bytes, fault |-> FALSE]) IN
    IF files[i].exists /\ r.ok
    THEN {<<o>> : o \in OrdersFor(Lines(r.val.content), BinSep)}
    ELSE {<<>>}

Run(i) ==
    /\ task[i].pc = "start"
    /\ \E o \in RunOrders(i) :
        task' = [task EXCEPT ![i] = TaskAfterGuess(i, o)]
    /\ UNCHANGED <<libVars, callVars, refVars, files, counter, printed>>

(* let prev = counter.fetch_add(1, Ordering::SeqCst); *)
StoreStale(i) ==
    /\ task' = [task EXCEPT ![i].pc = "added"]
    /\ counter' = task[i].prev + 1

AtomicFetchAdd(i) ==
    /\ task' = [task EXCEPT ![i].pc = "added", ![i].prev = counter]
    /\ counter' = counter + 1

FetchAdd(i) ==
    /\ task[i].pc = "guessed"
    /\ AtomicFetchAdd(i)
    /\ UNCHANGED <<libVars, callVars, refVars, files, printed>>

(* print!("\rcompleted: {}/{}", prev + 1, size); Guess::Success(..) *)
PrintProgress(i) ==
    /\ task[i].pc = "added"
    /\ printed' = Append(printed, task[i].prev + 1)
    /\ task' = [task EXCEPT ![i].pc = "done", ![i].out = "Success"]
    /\ UNCHANGED <<libVars, callVars, refVars, files, counter>>

RunTask == \E i \in DOMAIN files : Run(i)
FetchAddTask == \E i \in DOMAIN files : FetchAdd(i)
PrintTask == \E i \in DOMAIN files : PrintProgress(i)

NextBin == RunTask \/ FetchAddTask \/ PrintTask

SpecBin == InitBin /\ [][NextBin]_vars

---------------------------------------------------------------------------
(* Properties. *)

Count(c, line) == Cardinality({j \in DOMAIN line : line[j] = c})

HasCandidate(line, separators) == Range(line) \cap Range(separators) # {}

LinesWon(c) == Cardinality({i \in DOMAIN lineWinner : lineWinner[i] = <<c>>})

RECURSIVE SumOver(_, _)
SumOver(S, t) ==
    IF S = {} THEN 0
    ELSE LET x == CHOOSE y \in S : TRUE IN t[x] + SumOver(S \ {x}, t)

(* Position i of the content lies inside a line: it is neither a line feed *)
(* nor the carriage return of a "\r\n" line ending.                        *)
InsideLine(i) ==
    /\ content[i] # LF
    /\ ~(content[i] = CR /\ i < Len(content) /\ content[i + 1] = LF)

(* Well-formed UTF-8 of the one- and two-byte forms, and the encoding of  *)
(* a text.                                                                 *)
IsLead(b) == b >= 194 /\ b <= 223

WellFormed(bytes) ==
    \A i \in DOMAIN bytes :
        \/ bytes[i] < 128
        \/ IsLead(bytes[i]) /\ i < Len(bytes) /\ IsCont(bytes[i + 1])
        \/ IsCont(bytes[i]) /\ i > 1 /\ IsLead(bytes[i - 1])

RECURSIVE Utf8Encode(_)
Utf8Encode(text) ==
    IF text = <<>> THEN <<>>
    ELSE LET c == Head(text) IN
         (IF c < 128 THEN <<c>> ELSE <<192 + (c \div 64), 128 + (c % 64)>>)
         \o Utf8Encode(Tail(text))

(* The per-file tasks of the binary. *)
Size == Len(files)

Succeeded == {i \in DOMAIN task : task[i].out = "Success"}

Failed == {i \in DOMAIN task : task[i].out = "Fail"}

AllFinished == \A i \in DOMAIN task : task[i].pc = "done"

(* The counter and the printed values against the tasks' positions. *)
C10_State ==
    /\ counter = Cardinality({i \in DOMAIN task :
                                task[i].pc = "added" \/ task[i].out = "Success"})
    /\ \A j \in DOMAIN printed : printed[j] \in 1..Size
    /\ \A j, k \in DOMAIN printed : j # k => printed[j] # printed[k]
    /\ AllFinished =>
        /\ counter = Cardinality(Succeeded)
        /\ counter = Size => Failed = {}

(* C1: with a non-empty candidate set, guess returns a member of the       *)
(* candidate set or fails with NoDelimiterFound; never another character.  *)
C1_ResultIsCandidate ==
    (called /\ seps # <<>>) =>
        /\ result.ok => result.val \in Range(seps)
        /\ ~result.ok => result = Err(NoDelimiterFound)

C1_Witness ==
    /\ called
    /\ result.ok
    /\ Count(LetterA, content) > Count(result.val, content)
    /\ Len(seps) = 2

(* C2: a successful guess returns a candidate that won the maximal number  *)
(* of lines, and of the candidates tied for that maximum the largest       *)
(* character.                                                              *)
C2_MostLinesLargestOnTie ==
    (called /\ result.ok) =>
        /\ result.val \in Range(seps)
        /\ LinesWon(result.val) >= 1
        /\ \A c \in Range(seps) :
            /\ LinesWon(c) <= LinesWon(result.val)
            /\ LinesWon(c) = LinesWon(result.val) => c <= result.val

C2_Witness ==
    /\ called
    /\ result = Ok(Semicolon)
    /\ LinesWon(Comma) = 1
    /\ LinesWon(Semicolon) = 1
    /\ Len(lineWinner) = 3

(* C3: guess fails with NoDelimiterFound when the content is empty, the    *)
(* candidate set is empty or the content holds no candidate character;     *)
(* and it succeeds whenever some line holds a candidate character.         *)
C3_NoDelimiterFound ==
    called =>
        /\ (content = <<>> \/ seps = <<>>
             \/ Range(content) \cap Range(seps) = {})
            => result = Err(NoDelimiterFound)
        /\ (\E i \in DOMAIN content :
                InsideLine(i) /\ content[i] \in Range(seps))
            => result.ok

C3_Witness ==
    /\ called
    /\ result = Err(NoDelimiterFound)
    /\ Len(seps) = 2
    /\ Len(Lines(content)) = 2
    /\ LetterA \in Range(content)
    /\ Range(content) \cap Range(seps) = {}

(* C4: two calls of guess with the same content and the same candidate     *)
(* sequence return the same result.                                        *)
C4_Deterministic ==
    [][(called /\ called' /\ content' = content /\ seps' = seps)
        => result' = result]_vars

(* C5: two calls of guess whose candidate sequences are permutations of    *)
(* one another return the same result.                                     *)
C5_OrderIndependent ==
    [][(called /\ called' /\ seps' # seps /\ Len(seps') = Len(seps)
        /\ Range(seps') = Range(seps))
        => result' = result]_vars

(* C6: whatever calls came before, the content is the one try_new read,    *)
(* and guess with candidates C returns what guess with C returns on a      *)
(* guesser newly built over the same content.                              *)
C6_NoSideEffects ==
    /\ pc = "ready" => content = TryNewResult(source).val.content
    /\ (called /\ refCalled /\ refContent = content /\ refSeps = seps)
        => result = refResult

(* C9: for a content s that does not end in a newline, guess on s and      *)
(* guess on s followed by one newline give the same outcome.               *)
C9_TrailingNewline ==
    (/\ called
     /\ refCalled
     /\ refSeps = seps
     /\ (content = <<>> \/ content[Len(content)] # LF)
     /\ refContent = content \o <<LF>>)
        => result = refResult

(* C7: try_new fails with Io exactly when the read fails (an I/O fault or  *)
(* bytes that are not well-formed UTF-8) and then yields no guesser;       *)
(* otherwise it yields a guesser whose content is the whole text of the    *)
(* source, whether or not the text holds a separator.                      *)
C7_TryNewIoOnly ==
    pc # "new" =>
        /\ pc = "failed" <=> (source.fault \/ ~WellFormed(source.bytes))
        /\ pc = "failed" => newResult = Err(Io)
        /\ pc = "ready" =>
            /\ newResult = Ok([content |-> content])
            /\ Utf8Encode(content) = source.bytes

C7_Witness ==
    /\ pc = "failed"
    /\ ~source.fault
    /\ source.bytes = <<LetterA, LeadC3, Comma>>

(* C8: a line holding a candidate character casts exactly one vote, for a  *)
(* candidate whose count in the line is at least that of every other       *)
(* candidate; a line holding none casts no vote; the votes of the global   *)
(* tally number the lines that hold a candidate character.                 *)
C8_OneVotePerLine ==
    called =>
        LET lines == Lines(content) IN
        /\ DOMAIN lineWinner = DOMAIN lines
        /\ \A i \in DOMAIN lines :
            IF HasCandidate(lines[i], seps)
            THEN \E w \in Range(seps) :
                    /\ lineWinner[i] = <<w>>
                    /\ \A c \in Range(seps) :
                        Count(c, lines[i]) <= Count(w, lines[i])
            ELSE lineWinner[i] = <<>>
        /\ DOMAIN tally \subseteq Range(seps)
        /\ SumOver(DOMAIN tally, tally)
            = Cardinality({i \in DOMAIN lines : HasCandidate(lines[i], seps)})
        /\ \A c \in DOMAIN tally : tally[c] = LinesWon(c)

C8_Witness ==
    /\ called
    /\ content = <<LetterA, LF, Comma, Semicolon, Semicolon>>
    /\ seps = <<Comma, Semicolon>>
    /\ lineWinner = <<<<>>, <<Semicolon>>>>

(* C10: the progress counter never decreases and counts exactly the tasks  *)
(* whose guess succeeded and that passed fetch_add; the printed values     *)
(* prev + 1 are pairwise distinct and lie in 1..size; once every task has  *)
(* finished the counter is the number of Guess::Success results, and it is *)
(* size only if no guess failed.                                           *)
C10_ProgressCounter ==
    /\ []C10_State
    /\ [][/\ counter' >= counter
          /\ counter' # counter =>
                \E i \in DOMAIN task :
                    /\ task[i].pc = "guessed"
                    /\ task'[i].pc = "added"
                    /\ counter' = counter + 1]_vars

C10_Witness ==
    /\ AllFinished
    /\ Size = 3
    /\ printed = <<2, 1>>
    /\ Cardinality(Failed) = 1

====
